---- MODULE Spec2Model ----
(***************************************************************************)
(* Model of main.py: the log-line classifier (ChatMessage.parse), the URL  *)
(* extractor, the reservoir sampler, the statistics aggregator             *)
(* (Main.one_line), the report ranking (Main.save_page) and the filename   *)
(* filter (get_filter_mask).                                               *)
(*                                                                         *)
(* A Python str is a sequence of one-character strings.  A run reads text  *)
(* log files (the `open(filepath, "r")` branch of bulk_lines).             *)
(***************************************************************************)
EXTENDS Integers, Sequences, FiniteSets, TLC

VARIABLES
    line,                 \* bulk_lines: the stripped line last handed to one_line
    n_lines,              \* bulk_lines: how many lines were handed to one_line
    n_msgs,               \* how many MessageType_REGULAR/MessageType_ACTION events one_line has processed
    pc,                   \* "reading", "aborted" (an exception left main) or "saved"
    exc,                  \* the exception that ended the run, or "none"
    user_messages,        \* Main.user_messages      (Counter, insertion-ordered)
    user_question,        \* Main.user_question
    user_exclamation,     \* Main.user_exclamation
    user_actions,         \* Main.user_actions
    user_givemodes,       \* Main.user_givemodes
    cache_user_messages,  \* Main._cache_user_messages (ReservoirSampler)
    activity_graph,       \* Main.activity_graph
    url_count,            \* Main.url_count
    last_url_usage,       \* Main.last_url_usage
    report,               \* what save_page hands to the template and to json.dump
    observed,             \* sampler runs: the values passed to consider, per key
    got,                  \* sampler runs: the result of the last get(k)
    now,                  \* get_filter_mask: datetime.datetime.now() as [year, month]
    arg_year,             \* get_filter_mask: the year argument
    arg_month,            \* get_filter_mask: the month argument
    mask                  \* get_filter_mask: the (year, month) put into the pattern

vars == <<line, n_lines, n_msgs, pc, exc, user_messages, user_question,
          user_exclamation, user_actions, user_givemodes, cache_user_messages,
          activity_graph, url_count, last_url_usage, report, observed, got,
          now, arg_year, arg_month, mask>>

---------------------------------------------------------------------------
(* Bounds of the model *)

MaxLines == 2
MaxObs == 4
MaxAuthors == 37
MaxCount == 3

---------------------------------------------------------------------------
(* Python str helpers *)

None == [kind |-> "none"]

DigitChars == <<"0", "1", "2", "3", "4", "5", "6", "7", "8", "9">>

\* '0' <= c and c <= '9'
IsDigit(c) == \E i \in 1..10 : DigitChars[i] = c

DigitVal(c) == (CHOOSE i \in 1..10 : DigitChars[i] = c) - 1

\* c in s
Contains(s, c) == \E i \in 1..Len(s) : s[i] = c

\* str.split(): cut at runs of whitespace, no empty tokens
RECURSIVE SplitFrom(_, _, _)
SplitFrom(s, i, cur) ==
    IF i > Len(s)
    THEN IF cur = <<>> THEN <<>> ELSE <<cur>>
    ELSE IF s[i] = " "
         THEN IF cur = <<>>
              THEN SplitFrom(s, i + 1, <<>>)
              ELSE <<cur>> \o SplitFrom(s, i + 1, <<>>)
         ELSE SplitFrom(s, i + 1, Append(cur, s[i]))

split(s) == SplitFrom(s, 1, <<>>)

\* str.split(sep): cut at every sep, empty pieces kept
RECURSIVE SplitSepFrom(_, _, _, _)
SplitSepFrom(s, sep, i, cur) ==
    IF i > Len(s)
    THEN <<cur>>
    ELSE IF s[i] = sep
         THEN <<cur>> \o SplitSepFrom(s, sep, i + 1, <<>>)
         ELSE SplitSepFrom(s, sep, i + 1, Append(cur, s[i]))

split_sep(s, sep) == SplitSepFrom(s, sep, 1, <<>>)

\* " ".join(words)
RECURSIVE join(_)
join(words) ==
    IF words = <<>> THEN <<>>
    ELSE IF Len(words) = 1 THEN words[1]
    ELSE words[1] \o <<" ">> \o join(Tail(words))

\* str.rstrip(c)
RECURSIVE rstrip(_, _)
rstrip(s, c) ==
    IF s # <<>> /\ s[Len(s)] = c THEN rstrip(SubSeq(s, 1, Len(s) - 1), c) ELSE s

\* words[n:]
SliceFrom(words, n) == SubSeq(words, n + 1, Len(words))

\* int(s): an optional sign, then digits with single underscores between
\* them; anything else is a ValueError
RECURSIVE DecimalValue(_, _)
DecimalValue(s, acc) ==
    IF s = <<>> THEN acc
    ELSE IF s[1] = "_" THEN DecimalValue(Tail(s), acc)
    ELSE DecimalValue(Tail(s), acc * 10 + DigitVal(s[1]))

int(s) ==
    LET signed == s # <<>> /\ s[1] \in {"+", "-"}
        body == IF signed THEN Tail(s) ELSE s
        wellformed ==
            /\ body # <<>>
            /\ IsDigit(body[1])
            /\ IsDigit(body[Len(body)])
            /\ \A i \in 1..Len(body) : IsDigit(body[i]) \/ body[i] = "_"
            /\ \A i \in 1..(Len(body) - 1) : ~(body[i] = "_" /\ body[i + 1] = "_")
    IN  IF ~wellformed THEN [ok |-> FALSE, val |-> 0]
        ELSE [ok |-> TRUE,
              val |-> IF signed /\ s[1] = "-"
                      THEN 0 - DecimalValue(body, 0)
                      ELSE DecimalValue(body, 0)]

---------------------------------------------------------------------------
(* ChatMessage *)

MessageType_REGULAR == 0
MessageType_ACTION == 1
MessageType_MODE_CHANGE == 2

MinLineLen == 7
Hours == 24

Raise(e) == [kind |-> "raise", exc |-> e]

ChatMessage(t, u, txt, lt) ==
    [kind |-> "event", time |-> t, username |-> u, text |-> txt, line_type |-> lt]

\* datetime.time(*map(int, parts)): the ints are made first, then the
\* argument count and the ranges are checked
time(parts) ==
    LET n == Len(parts)
        a == [i \in 1..n |-> int(parts[i])]
        inrange ==
            /\ a[1].val >= 0 /\ a[1].val < Hours
            /\ n >= 2 => (a[2].val >= 0 /\ a[2].val <= 59)
            /\ n >= 3 => (a[3].val >= 0 /\ a[3].val <= 59)
            /\ n >= 4 => (a[4].val >= 0 /\ a[4].val <= 999999)
    IN  IF \E i \in 1..n : ~a[i].ok THEN Raise("ValueError")
        ELSE IF n > 5 THEN Raise("TypeError")
        ELSE IF ~inrange THEN Raise("ValueError")
        ELSE IF n = 5 THEN Raise("TypeError")
        ELSE [kind |-> "time",
              hour |-> a[1].val,
              minute |-> IF n >= 2 THEN a[2].val ELSE 0,
              second |-> IF n >= 3 THEN a[3].val ELSE 0]

\* ChatMessage.parse, "<" branch
parse_regular(contents, message_time) ==
    IF Len(contents) < 3 THEN Raise("IndexError")
    ELSE ChatMessage(message_time, rstrip(contents[3], ">"),
                     join(SliceFrom(contents, 3)), MessageType_REGULAR)

\* ChatMessage.parse, "*" branch
parse_action(contents, message_time) ==
    IF Len(contents) < 3 THEN Raise("IndexError")
    ELSE ChatMessage(message_time, contents[3],
                     join(SliceFrom(contents, 3)), MessageType_ACTION)

\* ChatMessage.parse, "-" branch
parse_mode_change(contents, message_time) ==
    IF Len(contents) < 5 THEN Raise("IndexError")
    ELSE ChatMessage(message_time, rstrip(contents[5], "]"), <<>>, MessageType_MODE_CHANGE)

\* a faulty ineligible: the first character is not looked at
ineligible_length_only(l) == Len(l) < MinLineLen

\* parse: the lines that are no chat lines, without a "HH:MM " at the start
ineligible(l) == Len(l) < MinLineLen \/ ~IsDigit(l[1])

\* a faulty unknown_discriminator: the line is skipped like an ineligible one
unknown_discriminator_skipped(l, d) == None

\* parse: case d, the discriminator is none of "*", "<", "-"
unknown_discriminator(l, d) == Raise("RuntimeError")

\* ChatMessage.parse: None, an event, or the exception it raises
parse(l) ==
    IF ineligible(l) THEN None
    ELSE LET contents == split(l)
             message_time == time(split_sep(contents[1], ":"))
         IN  IF message_time.kind = "raise" THEN message_time
             ELSE IF Len(contents) < 2 THEN Raise("IndexError")
             ELSE LET d == contents[2][1]
                  IN  IF d = "*" THEN parse_action(contents, message_time)
                      ELSE IF d = "<" THEN parse_regular(contents, message_time)
                      ELSE IF d = "-" THEN parse_mode_change(contents, message_time)
                      ELSE unknown_discriminator(l, d)

---------------------------------------------------------------------------
(* URLS_PATTERN and ChatMessage.parse_urls *)

Letters ==
    {"a", "b", "c", "d", "e", "f", "g", "h", "i", "j", "k", "l", "m",
     "n", "o", "p", "q", "r", "s", "t", "u", "v", "w", "x", "y", "z",
     "A", "B", "C", "D", "E", "F", "G", "H", "I", "J", "K", "L", "M",
     "N", "O", "P", "Q", "R", "S", "T", "U", "V", "W", "X", "Y", "Z"}

\* [$-_]: every character from "$" (0x24) to "_" (0x5F) that is neither a
\* letter nor a digit
DollarToUnderscore ==
    {"$", "%", "&", "'", "(", ")", "*", "+", ",", "-", ".", "/", ":", ";",
     "<", "=", ">", "?", "@", "[", "\\", "]", "^", "_"}

\* one character of the repeated group of URLS_PATTERN
UrlChar(c) ==
    \/ c \in Letters
    \/ IsDigit(c)
    \/ c \in DollarToUnderscore
    \/ c \in {"@", ".", "&", "+"}
    \/ c \in {"!", "*", "(", ")", ","}

StartsWith(s, i, p) ==
    /\ i + Len(p) - 1 <= Len(s)
    /\ SubSeq(s, i, i + Len(p) - 1) = p

RECURSIVE RunEnd(_, _)
RunEnd(s, i) == IF i <= Len(s) /\ UrlChar(s[i]) THEN RunEnd(s, i + 1) ELSE i - 1

\* the index where a match of URLS_PATTERN starting at i ends; 0: no match
MatchEnd(s, i) ==
    LET http == <<"h", "t", "t", "p">>
        sep == <<":", "/", "/">>
        j == IF ~StartsWith(s, i, http) THEN 0
             ELSE IF StartsWith(s, i + 4, <<"s">>) /\ StartsWith(s, i + 5, sep)
                  THEN i + 8
             ELSE IF StartsWith(s, i + 4, sep) THEN i + 7
             ELSE 0
    IN  IF j = 0 THEN 0
        ELSE IF RunEnd(s, j) < j THEN 0 ELSE RunEnd(s, j)

\* URLS_PATTERN.findall(text): leftmost matches, not overlapping
RECURSIVE FindAll(_, _)
FindAll(s, i) ==
    IF i > Len(s) THEN <<>>
    ELSE IF MatchEnd(s, i) = 0 THEN FindAll(s, i + 1)
    ELSE <<SubSeq(s, i, MatchEnd(s, i))>> \o FindAll(s, MatchEnd(s, i) + 1)

parse_urls(text) == FindAll(text, 1)

---------------------------------------------------------------------------
(* collections.Counter and dict: a Counter is the sequence of its           *)
(* [k, n] items in insertion order; a dict is a function on its keys        *)

EmptyCounter == <<>>

EmptyDict == [x \in {} |-> <<>>]

CounterKeys(c) == {c[i].k : i \in 1..Len(c)}

\* c[k]
CounterGet(c, k) ==
    IF k \in CounterKeys(c)
    THEN c[CHOOSE i \in 1..Len(c) : c[i].k = k].n
    ELSE 0

\* c[k] += 1
CounterInc(c, k) ==
    IF k \in CounterKeys(c)
    THEN [i \in 1..Len(c) |-> IF c[i].k = k THEN [k |-> k, n |-> c[i].n + 1] ELSE c[i]]
    ELSE Append(c, [k |-> k, n |-> 1])

\* c.total()
RECURSIVE CounterTotal(_)
CounterTotal(c) == IF c = <<>> THEN 0 ELSE c[1].n + CounterTotal(Tail(c))

\* d[k] = v
DictPut(d, k, v) == [x \in (DOMAIN d) \cup {k} |-> IF x = k THEN v ELSE d[x]]

\* sorted(items, key=itemgetter(1), reverse=True), a stable sort: each item
\* goes behind the items that were placed before it and count as much or more
RECURSIVE InsertDesc(_, _)
InsertDesc(sorted, e) ==
    IF sorted = <<>> THEN <<e>>
    ELSE IF sorted[1].n >= e.n THEN <<sorted[1]>> \o InsertDesc(Tail(sorted), e)
    ELSE <<e>> \o sorted

RECURSIVE SortedDesc(_, _)
SortedDesc(items, acc) ==
    IF items = <<>> THEN acc
    ELSE SortedDesc(Tail(items), InsertDesc(acc, items[1]))

\* Counter.most_common()
most_common(c) == SortedDesc(c, <<>>)

Min(a, b) == IF a < b THEN a ELSE b

\* Counter.most_common(n)
most_common_n(c, n) == SubSeq(most_common(c), 1, Min(n, Len(c)))

---------------------------------------------------------------------------
(* ReservoirSampler *)

NewSampler == [storage |-> EmptyDict, counter |-> EmptyCounter]

\* what random.randint(1, curr_idx) can return when k is considered next
DrawRange(s, k) == 1..(CounterGet(s.counter, k) + 1)

\* a faulty consider: the first observation of a key is not counted
consider_counting_late(s, k, v, chosen_element_idx) ==
    IF k \notin DOMAIN s.storage
    THEN [storage |-> DictPut(s.storage, k, v), counter |-> s.counter]
    ELSE IF chosen_element_idx = 1
         THEN [storage |-> DictPut(s.storage, k, v), counter |-> CounterInc(s.counter, k)]
         ELSE [storage |-> s.storage, counter |-> CounterInc(s.counter, k)]

\* ReservoirSampler.consider(k, v), chosen_element_idx being the draw
consider(s, k, v, chosen_element_idx) ==
    LET counter == CounterInc(s.counter, k)
    IN  IF k \notin DOMAIN s.storage
        THEN [storage |-> DictPut(s.storage, k, v), counter |-> counter]
        ELSE IF chosen_element_idx = 1
             THEN [storage |-> DictPut(s.storage, k, v), counter |-> counter]
             ELSE [storage |-> s.storage, counter |-> counter]

\* ReservoirSampler.get(k)
get(s, k) == IF k \in DOMAIN s.storage THEN s.storage[k] ELSE None

---------------------------------------------------------------------------
(* Main: the aggregator's fields as one record *)

Top25 == 25
Top35 == 35

main_vars == <<user_messages, user_question, user_exclamation, user_actions,
               user_givemodes, cache_user_messages, activity_graph, url_count,
               last_url_usage>>

\* Main.__init__
NewMain ==
    [user_messages |-> EmptyCounter,
     user_question |-> EmptyCounter,
     user_exclamation |-> EmptyCounter,
     user_actions |-> EmptyCounter,
     user_givemodes |-> EmptyCounter,
     cache_user_messages |-> NewSampler,
     activity_graph |-> [h \in 0..(Hours - 1) |-> 0],
     url_count |-> EmptyCounter,
     last_url_usage |-> EmptyDict]

Main ==
    [user_messages |-> user_messages,
     user_question |-> user_question,
     user_exclamation |-> user_exclamation,
     user_actions |-> user_actions,
     user_givemodes |-> user_givemodes,
     cache_user_messages |-> cache_user_messages,
     activity_graph |-> activity_graph,
     url_count |-> url_count,
     last_url_usage |-> last_url_usage]

InitMain(st) ==
    /\ user_messages = st.user_messages
    /\ user_question = st.user_question
    /\ user_exclamation = st.user_exclamation
    /\ user_actions = st.user_actions
    /\ user_givemodes = st.user_givemodes
    /\ cache_user_messages = st.cache_user_messages
    /\ activity_graph = st.activity_graph
    /\ url_count = st.url_count
    /\ last_url_usage = st.last_url_usage

SetMain(st) ==
    /\ user_messages' = st.user_messages
    /\ user_question' = st.user_question
    /\ user_exclamation' = st.user_exclamation
    /\ user_actions' = st.user_actions
    /\ user_givemodes' = st.user_givemodes
    /\ cache_user_messages' = st.cache_user_messages
    /\ activity_graph' = st.activity_graph
    /\ url_count' = st.url_count
    /\ last_url_usage' = st.last_url_usage

\* one_line: "!" in message.text
has_exclamation(text) == Contains(text, "!")

\* a faulty has_question: tested with elif after the "!" test
has_question_elif(text) == Contains(text, "?") /\ ~Contains(text, "!")

\* one_line: "?" in message.text
has_question(text) == Contains(text, "?")

\* one_line: the loop over message.parse_urls()
RECURSIVE count_urls(_, _, _)
count_urls(st, urls, u) ==
    IF urls = <<>> THEN st
    ELSE count_urls([st EXCEPT !.url_count = CounterInc(@, urls[1]),
                               !.last_url_usage = DictPut(@, urls[1], u)],
                    Tail(urls), u)

\* a faulty mode_change_case: the mode change also enters the histogram
mode_change_case_counted(st, message) ==
    [st EXCEPT !.user_givemodes = CounterInc(@, message.username),
               !.activity_graph[message.time.hour] = @ + 1]

\* one_line: case MessageType.MODE_CHANGE
mode_change_case(st, message) ==
    [st EXCEPT !.user_givemodes = CounterInc(@, message.username)]

\* a faulty bump_activity: the bucket after the hour's
bump_activity_one_based(graph, hour) ==
    [graph EXCEPT ![(hour + 1) % Hours] = @ + 1]

\* one_line: self.activity_graph[message.time.hour] += 1
bump_activity(graph, hour) == [graph EXCEPT ![hour] = @ + 1]

\* one_line: case MessageType.REGULAR | MessageType.ACTION
message_case(st, message, draw) ==
    LET u == message.username
        st1 == [st EXCEPT !.activity_graph = bump_activity(@, message.time.hour),
                          !.user_messages = CounterInc(@, u)]
        st2 == IF message.line_type = MessageType_ACTION
               THEN [st1 EXCEPT !.user_actions = CounterInc(@, u)]
               ELSE st1
        st3 == [st2 EXCEPT !.cache_user_messages = consider(@, u, message.text, draw)]
        st4 == count_urls(st3, parse_urls(message.text), u)
        st5 == IF has_exclamation(message.text)
               THEN [st4 EXCEPT !.user_exclamation = CounterInc(@, u)]
               ELSE st4
    IN  IF has_question(message.text)
        THEN [st5 EXCEPT !.user_question = CounterInc(@, u)]
        ELSE st5

\* Main.one_line on an event
aggregate(st, message, draw) ==
    IF message.line_type = MessageType_MODE_CHANGE
    THEN mode_change_case(st, message)
    ELSE IF message.line_type \in {MessageType_REGULAR, MessageType_ACTION}
    THEN message_case(st, message, draw)
    ELSE st

\* a faulty uncaught: a ValueError is caught and the line skipped
uncaught_but_value_error(message) ==
    message.kind = "raise" /\ message.exc # "ValueError"

\* one_line, bulk_lines and main have no try: whatever parse raises leaves main()
uncaught(message) == message.kind = "raise"

\* Main.one_line(line) as bulk_lines calls it
one_line(l, draw) ==
    LET message == parse(l)
    IN  /\ line' = l
        /\ n_lines' = n_lines + 1
        /\ report' = report
        /\ IF uncaught(message)
           THEN /\ pc' = "aborted"
                /\ exc' = message.exc
                /\ n_msgs' = n_msgs
                /\ UNCHANGED main_vars
           ELSE IF message.kind # "event"
           THEN /\ UNCHANGED <<pc, exc, n_msgs>>
                /\ UNCHANGED main_vars
           ELSE /\ UNCHANGED <<pc, exc>>
                /\ n_msgs' = IF message.line_type = MessageType_MODE_CHANGE
                             THEN n_msgs ELSE n_msgs + 1
                /\ SetMain(aggregate(Main, message, draw))

---------------------------------------------------------------------------
(* Main.save_page *)

\* html.escape(s)
RECURSIVE html_escape(_)
html_escape(s) ==
    IF s = <<>> THEN <<>>
    ELSE (CASE s[1] = "&" -> <<"&", "a", "m", "p", ";">>
            [] s[1] = "<" -> <<"&", "l", "t", ";">>
            [] s[1] = ">" -> <<"&", "g", "t", ";">>
            [] s[1] = "\"" -> <<"&", "q", "u", "o", "t", ";">>
            [] s[1] = "'" -> <<"&", "#", "x", "2", "7", ";">>
            [] OTHER -> <<s[1]>>) \o html_escape(Tail(s))

\* save_page: users_messages_desc
users_messages_desc(st) == most_common(st.user_messages)

\* save_page: top25
top25(st) ==
    LET capped_top25_len == Min(Top25, Len(users_messages_desc(st)))
    IN  SubSeq(users_messages_desc(st), 1, capped_top25_len)

\* a faulty runner_ups: the slice starts one item early
runner_ups_from_last_top(st) ==
    LET capped_top25_len == Min(Top25, Len(users_messages_desc(st)))
        capped_top35_len == Min(Top35, Len(users_messages_desc(st)))
    IN  IF capped_top25_len = 0 THEN <<>>
        ELSE SubSeq(users_messages_desc(st), capped_top25_len, capped_top35_len)

\* save_page: runner_ups
runner_ups(st) ==
    LET capped_top25_len == Min(Top25, Len(users_messages_desc(st)))
        capped_top35_len == Min(Top35, Len(users_messages_desc(st)))
    IN  SubSeq(users_messages_desc(st), capped_top25_len + 1, capped_top35_len)

\* save_page: the User built for each of top25 (user_id comes from the
\* osu! API and is left out)
most_active(st) ==
    [i \in 1..Len(top25(st)) |->
        [username |-> top25(st)[i].k,
         message_count |-> top25(st)[i].n,
         random_quote |-> html_escape(get(st.cache_user_messages, top25(st)[i].k))]]

\* save_page: top10_urls
top10_urls(st) ==
    LET top == most_common_n(st.url_count, 10)
    IN  [i \in 1..Len(top) |->
            [address |-> top[i].k,
             count |-> top[i].n,
             last_used_username |-> IF top[i].k \in DOMAIN st.last_url_usage
                                    THEN st.last_url_usage[top[i].k] ELSE <<>>]]

\* save_page: everything handed to template.render and json.dump
page(st) ==
    [most_active |-> most_active(st),
     runner_ups |-> runner_ups(st),
     being |-> [screaming |-> most_common_n(st.user_exclamation, 2),
                asking |-> most_common_n(st.user_question, 2),
                telling |-> most_common_n(st.user_actions, 2),
                modding |-> most_common_n(st.user_givemodes, 2)],
     urls_used |-> top10_urls(st),
     total |-> <<CounterTotal(st.user_question), CounterTotal(st.user_exclamation),
                 CounterTotal(st.user_actions), CounterTotal(st.user_givemodes)>>,
     activity_graph |-> st.activity_graph]

\* Main.save_page(); html.escape(None) would raise
save_page ==
    IF \E i \in 1..Len(top25(Main)) : get(cache_user_messages, top25(Main)[i].k) = None
    THEN /\ pc' = "aborted"
         /\ exc' = "AttributeError"
         /\ UNCHANGED <<report, line, n_lines, n_msgs>>
         /\ UNCHANGED main_vars
    ELSE /\ pc' = "saved"
         /\ report' = page(Main)
         /\ activity_graph' = [i \in 0..(Hours - 1) |-> activity_graph[i]]
         /\ UNCHANGED <<exc, line, n_lines, n_msgs, user_messages, user_question,
                        user_exclamation, user_actions, user_givemodes,
                        cache_user_messages, url_count, last_url_usage>>

---------------------------------------------------------------------------
(* The lines fed to one_line *)

D2(n) == <<DigitChars[(n \div 10) + 1], DigitChars[(n % 10) + 1]>>

\* "HH:MM:SS"
TimeStr(h, m, s) == D2(h) \o <<":">> \o D2(m) \o <<":">> \o D2(s)

\* an hour, a minute or a second out of range, or a component that is no number
InvalidTimes ==
    {TimeStr(24, 0, 1), TimeStr(10, 60, 1), TimeStr(10, 0, 60),
     <<"1", "x", ":", "0", "0", ":", "0", "1">>,
     <<"1", "0", ":", ":", "0", "1">>}

W_hi == <<"h", "i">>
W_hiX == <<"h", "i", "!">>
W_whyQ == <<"w", "h", "y", "?">>
W_url == <<"h", "t", "t", "p", ":", "/", "/", "a">>
W_urlQX == <<"h", "t", "t", "p", "s", ":", "/", "/", "b", "?", "x", "!">>
W_wrapped == <<"(", "h", "t", "t", "p", ":", "/", "/", "a", "#", "x", ")">>

\* bodies as word lists: every combination of "!", "?" and a URL
Bodies ==
    {<<W_hi>>, <<W_hiX>>, <<W_whyQ>>, <<W_hiX, W_whyQ>>,
     <<W_url>>, <<W_hiX, W_url>>, <<W_whyQ, W_url>>, <<W_urlQX>>}

OtherBodies == {<<W_hi>>, <<W_hi, W_wrapped, W_url>>}

ShortBodies == {<<W_hi>>, <<W_hiX, W_whyQ>>}

\* "HH:MM:SS <nick> text"
RegularLine(ts, nick, body) ==
    ts \o <<" ", "<">> \o nick \o <<">", " ">> \o join(body)

\* "HH:MM:SS < nick> text", as irssi pads the mode column
PaddedRegularLine(ts, nick, body) ==
    ts \o <<" ", "<", " ">> \o nick \o <<">", " ">> \o join(body)

\* "HH:MM:SS  * nick text"
ActionLine(ts, nick, body) ==
    ts \o <<" ", " ", "*", " ">> \o nick \o <<" ">> \o join(body)

\* "HH:MM:SS -!- mode/#c [+o nick] by Bot"
ModeLine(ts, nick) ==
    ts \o <<" ", "-", "!", "-", " ", "m", "o", "d", "e", "/", "#", "c", " ",
            "[", "+", "o", " ">> \o nick \o <<"]", " ", "b", "y", " ", "B", "o", "t">>

\* a second token that starts with none of "*", "<", "-"
UnknownLine(ts, nick) == ts \o <<" ", "!">> \o nick \o <<" ", "h", "i">>

\* too few tokens for the branch
TruncatedLines(ts) ==
    {ts,
     ts \o <<" ", "*">>,
     ts \o <<" ", "<", "n", "1", ">">>,
     ts \o <<" ", "-", "!", "-", " ", "m", "o", "d", "e", "/", "#", "c">>}

\* shorter than 7 characters, or not led by a digit
IneligibleLines ==
    {<<>>,
     <<"1", "0", ":", "0", "0">>,
     <<"1", "0", ":", "0", "0", " ">>,
     <<"<", "n", "1", ">", " ", "h", "i", "!">>,
     <<"-", "-", "-", " ", "L", "o", "g", " ", "o", "p", "e", "n", "e", "d">>,
     <<"x", "0", ":", "1", "5", ":", "0", "1", " ", "*", " ", "n", "1", " ", "h", "i">>}

Lines ==
    UNION {
        {PaddedRegularLine(TimeStr(0, 15, 1), <<"n", "1">>, b) : b \in Bodies},
        {ActionLine(TimeStr(0, 15, 1), <<"n", "1">>, b) : b \in Bodies},
        {PaddedRegularLine(TimeStr(23, 59, 59), <<"n", "2">>, b) : b \in OtherBodies},
        {ActionLine(TimeStr(23, 59, 59), <<"n", "2">>, b) : b \in {<<W_hi>>}},
        {RegularLine(TimeStr(0, 15, 1), <<"n", "1">>, b) : b \in ShortBodies},
        {ModeLine(TimeStr(0, 15, 1), <<"n", "1">>), ModeLine(TimeStr(23, 59, 59), <<"n", "2">>)},
        {UnknownLine(TimeStr(0, 15, 1), <<"n", "1">>)},
        TruncatedLines(TimeStr(23, 59, 59)),
        {<<"1", "0", ":", "0", "0", " ", "<", " ", "n", "1", ">">>},
        IneligibleLines,
        {PaddedRegularLine(ts, <<"n", "1">>, <<W_hi>>) : ts \in InvalidTimes},
        {ModeLine(TimeStr(24, 0, 1), <<"n", "2">>)}
    }

---------------------------------------------------------------------------
(* A run of main(): bulk_lines feeds the lines, then save_page *)

IdleSampler == /\ observed = EmptyDict /\ got = None

IdleFilter ==
    /\ now = [year |-> 2024, month |-> 1]
    /\ arg_year = <<>>
    /\ arg_month = <<>>
    /\ mask = None

Init ==
    /\ line = <<>>
    /\ n_lines = 0
    /\ n_msgs = 0
    /\ pc = "reading"
    /\ exc = "none"
    /\ InitMain(NewMain)
    /\ report = None
    /\ IdleSampler
    /\ IdleFilter

OneLine ==
    /\ pc = "reading"
    /\ n_lines < MaxLines
    /\ \E l \in Lines :
         LET message == parse(l)
         IN  \E draw \in (IF message.kind = "event"
                          THEN DrawRange(cache_user_messages, message.username)
                          ELSE {1}) :
                one_line(l, draw)
    /\ UNCHANGED <<observed, got, now, arg_year, arg_month, mask>>

SavePage ==
    /\ pc = "reading"
    /\ save_page
    /\ UNCHANGED <<observed, got, now, arg_year, arg_month, mask>>

Next == OneLine \/ SavePage

Spec == Init /\ [][Next]_vars

---------------------------------------------------------------------------
(* The sampler on its own: consider and get on two keys, the values of a   *)
(* key being distinct                                                      *)

SampleKeys == {<<"k", "1">>, <<"k", "2">>}

\* a key that is never passed to consider
UnseenKey == <<"k", "0">>

\* the i-th value observed under a key
SampleValue(i) == <<"v", DigitChars[i + 1]>>

Observed(k) == IF k \in DOMAIN observed THEN observed[k] ELSE <<>>

InitSampler ==
    /\ line = <<>>
    /\ n_lines = 0
    /\ n_msgs = 0
    /\ pc = "reading"
    /\ exc = "none"
    /\ InitMain(NewMain)
    /\ report = None
    /\ observed = EmptyDict
    /\ got = None
    /\ IdleFilter

Consider ==
    /\ \E k \in SampleKeys :
         /\ Len(Observed(k)) < MaxObs
         /\ LET v == SampleValue(Len(Observed(k)) + 1)
            IN  /\ \E draw \in DrawRange(cache_user_messages, k) :
                      cache_user_messages' = consider(cache_user_messages, k, v, draw)
                /\ observed' = DictPut(observed, k, Append(Observed(k), v))
    /\ UNCHANGED <<line, n_lines, n_msgs, pc, exc, user_messages, user_question,
                   user_exclamation, user_actions, user_givemodes, activity_graph,
                   url_count, last_url_usage, report, got,
                   now, arg_year, arg_month, mask>>

Get ==
    /\ \E k \in SampleKeys \cup {UnseenKey} :
         got' = [kind |-> "got", key |-> k, value |-> get(cache_user_messages, k)]
    /\ UNCHANGED <<line, n_lines, n_msgs, pc, exc, report, observed,
                   now, arg_year, arg_month, mask>>
    /\ UNCHANGED main_vars

NextSampler == Consider \/ Get

SpecSampler == InitSampler /\ [][NextSampler]_vars

---------------------------------------------------------------------------
(* save_page on larger counters: the state after a log in which author i   *)
(* wrote RankCount(i) lines "00:15:01 < uNN> hi", authors in order of      *)
(* first appearance                                                        *)

Author(i) == <<"u">> \o D2(i)

RankCount(i, a, b, m) == 1 + ((a * i + b) % m)

RankCounter(n, a, b, m) == [i \in 1..n |-> [k |-> Author(i), n |-> RankCount(i, a, b, m)]]

RankQuote == <<"h", "i">>

InitRank ==
    \E n \in 0..MaxAuthors, a \in {0, 1, 3}, b \in {0, 1}, m \in 1..MaxCount :
        LET c == RankCounter(n, a, b, m)
        IN  /\ line = IF n = 0 THEN <<>>
                      ELSE PaddedRegularLine(TimeStr(0, 15, 1), Author(n), <<W_hi>>)
            /\ n_lines = CounterTotal(c)
            /\ n_msgs = CounterTotal(c)
            /\ pc = "reading"
            /\ exc = "none"
            /\ InitMain([NewMain EXCEPT
                   !.user_messages = c,
                   !.cache_user_messages =
                       [storage |-> [k \in CounterKeys(c) |-> RankQuote], counter |-> c],
                   !.activity_graph[0] = CounterTotal(c)])
            /\ report = None
            /\ IdleSampler
            /\ IdleFilter

SpecRank == InitRank /\ [][SavePage]_vars

---------------------------------------------------------------------------
(* get_filter_mask *)

K_current == <<"c", "u", "r", "r", "e", "n", "t">>
K_previous == <<"p", "r", "e", "v", "i", "o", "u", "s">>
K_digits == <<"\\", "d", "+">>

\* strftime("%Y")
strftime_Y(y) == D2(y \div 100) \o D2(y % 100)

\* strftime("%m")
strftime_m(m) == D2(m)

\* get_filter_mask(year, month) up to re.compile: the year and the month
\* that go into the pattern
get_filter_mask(year, month, t) ==
    LET year1 == IF year = K_current THEN strftime_Y(t.year) ELSE year
        month1 == IF month = K_current THEN strftime_m(t.month) ELSE month
        month_number0 == t.month - 1
        wraps == month_number0 < 0
        month_number == (IF wraps THEN month_number0 % 12 ELSE month_number0) + 1
        year_number == IF wraps THEN t.year - 1 ELSE t.year
    IN  IF month1 = K_previous \/ year1 = K_previous
        THEN [kind |-> "mask", year |-> strftime_Y(year_number),
              month |-> strftime_m(month_number)]
        ELSE [kind |-> "mask", year |-> year1, month |-> month1]

YearArgs == {K_digits, K_current, K_previous, <<"2", "0", "2", "4">>}
MonthArgs == {K_digits, K_current, K_previous, <<"0", "5">>}

InitFilter ==
    /\ line = <<>>
    /\ n_lines = 0
    /\ n_msgs = 0
    /\ pc = "reading"
    /\ exc = "none"
    /\ InitMain(NewMain)
    /\ report = None
    /\ IdleSampler
    /\ now \in [year : {1999, 2024}, month : 1..12]
    /\ arg_year \in YearArgs
    /\ arg_month \in MonthArgs
    /\ mask = None

GetFilterMask ==
    /\ mask = None
    /\ mask' = get_filter_mask(arg_year, arg_month, now)
    /\ UNCHANGED <<line, n_lines, n_msgs, pc, exc, report, observed, got,
                   now, arg_year, arg_month>>
    /\ UNCHANGED main_vars

SpecFilter == InitFilter /\ [][GetFilterMask]_vars

---------------------------------------------------------------------------
(* Properties *)

\* a step in which bulk_lines hands one more line to one_line
Fed == pc = "reading" /\ n_lines' = n_lines + 1

RECURSIVE SumGraph(_, _)
SumGraph(graph, h) == IF h < 0 THEN 0 ELSE graph[h] + SumGraph(graph, h - 1)

\* every author that any of the per-author counters knows before or after a step
AuthorsSeen ==
    UNION {CounterKeys(c) : c \in {user_messages, user_question, user_exclamation,
                                   user_actions, user_givemodes,
                                   user_messages', user_question', user_exclamation',
                                   user_actions', user_givemodes'}}

Bump(b) == IF b THEN 1 ELSE 0

\* parse on every line of the pool
ParsedLines == [l \in Lines |-> parse(l)]

\* C1: every well-formed line "HH:MM:SS <nick> text" parses to a REGULAR
\* event whose username is nick and whose text is the body words joined by
\* single spaces.
C1_RegularLineParsed ==
    \A nick \in {<<"n", "1">>}, body \in ShortBodies :
        (n_lines >= 1 /\ line = RegularLine(TimeStr(0, 15, 1), nick, body)) =>
            /\ parse(line).kind = "event"
            /\ parse(line).line_type = MessageType_REGULAR
            /\ parse(line).username = nick
            /\ parse(line).text = join(body)

\* C2: one_line on a line classified as a REGULAR or ACTION message by a at
\* hour h with body b adds 1 to activity_graph[h] and to user_messages[a],
\* adds 1 to user_actions[a] iff the event is an ACTION, to
\* user_exclamation[a] iff b contains "!", to user_question[a] iff b
\* contains "?", counts every URL of b, leaves the other authors' counters
\* and user_givemodes as they were.
C2_MessageCounted ==
    [][(Fed /\ ParsedLines[line'].kind = "event"
            /\ ParsedLines[line'].line_type \in {MessageType_REGULAR, MessageType_ACTION}) =>
        LET a == ParsedLines[line'].username
            h == ParsedLines[line'].time.hour
            b == ParsedLines[line'].text
        IN  /\ activity_graph' = [activity_graph EXCEPT ![h] = @ + 1]
            /\ user_messages' = CounterInc(user_messages, a)
            /\ user_actions' = IF ParsedLines[line'].line_type = MessageType_ACTION
                               THEN CounterInc(user_actions, a) ELSE user_actions
            /\ user_exclamation' = IF Contains(b, "!")
                                   THEN CounterInc(user_exclamation, a) ELSE user_exclamation
            /\ user_question' = IF Contains(b, "?")
                                THEN CounterInc(user_question, a) ELSE user_question
            /\ CounterGet(user_messages', a) = CounterGet(user_messages, a) + 1
            /\ CounterTotal(url_count') = CounterTotal(url_count) + Len(parse_urls(b))
            /\ user_givemodes' = user_givemodes
      ]_vars

\* the second line of a run is an ACTION whose body has "!", "?" and a URL,
\* by an author whose first line had neither "!" nor "?"
C2_Witness ==
    /\ n_lines = 2 /\ pc = "reading"
    /\ parse(line).kind = "event"
    /\ parse(line).line_type = MessageType_ACTION
    /\ Contains(parse(line).text, "!")
    /\ Contains(parse(line).text, "?")
    /\ parse_urls(parse(line).text) # <<>>
    /\ CounterGet(user_messages, parse(line).username) = 2
    /\ CounterGet(user_actions, parse(line).username) = 1
    /\ CounterGet(user_exclamation, parse(line).username) = 1
    /\ CounterGet(user_question, parse(line).username) = 1

\* C3: one_line on a line classified as a MODE_CHANGE by a adds 1 to
\* user_givemodes[a] and changes nothing else: not the histogram, not the
\* other counters, not the URL maps, not the sampler.
C3_ModeChangeOnly ==
    [][(Fed /\ parse(line').kind = "event"
            /\ parse(line').line_type = MessageType_MODE_CHANGE) =>
        LET a == parse(line').username
        IN  /\ CounterGet(user_givemodes', a) = CounterGet(user_givemodes, a) + 1
            /\ \A u \in AuthorsSeen \ {a} :
                   CounterGet(user_givemodes', u) = CounterGet(user_givemodes, u)
            /\ UNCHANGED <<activity_graph, user_messages, user_actions,
                           user_exclamation, user_question, url_count,
                           last_url_usage, cache_user_messages>>
      ]_vars

\* a mode change right after a counted message
C3_Witness ==
    /\ n_lines = 2 /\ n_msgs = 1 /\ pc = "reading"
    /\ parse(line).kind = "event"
    /\ parse(line).line_type = MessageType_MODE_CHANGE
    /\ CounterGet(user_givemodes, parse(line).username) = 1
    /\ parse(line).username = <<"n", "2">>

RECURSIVE SumFn(_)
SumFn(f) ==
    IF DOMAIN f = {} THEN 0
    ELSE LET x == CHOOSE x \in DOMAIN f : TRUE
         IN  f[x] + SumFn([y \in (DOMAIN f) \ {x} |-> f[y]])

\* in how many of the draw sequences that consider can see on `values`,
\* starting from sampler s, get(k) is `target` in the end
RECURSIVE Ways(_, _, _, _)
Ways(s, k, values, target) ==
    IF values = <<>>
    THEN Bump(get(s, k) = target)
    ELSE SumFn([d \in DrawRange(s, k) |->
                   Ways(consider(s, k, values[1], d), k, Tail(values), target)])

RECURSIVE Factorial(_)
Factorial(n) == IF n <= 1 THEN 1 ELSE n * Factorial(n - 1)

\* C4: after N >= 1 observations v1..vN of a key, get(key) is one of them
\* (v1 when N = 1); the next observation draws from 1..N+1; of the N! equally
\* likely draw sequences each vi is the held value in (N-1)!, a share of 1/N;
\* get of a key never passed to consider is None.
C4_ReservoirUniform ==
    /\ \A k \in SampleKeys \cup {UnseenKey} :
         LET vs == Observed(k)
             N == Len(vs)
         IN  IF N = 0
             THEN get(cache_user_messages, k) = None
             ELSE /\ \E i \in 1..N : get(cache_user_messages, k) = vs[i]
                  /\ N = 1 => get(cache_user_messages, k) = vs[1]
                  /\ DrawRange(cache_user_messages, k) = 1..(N + 1)
                  /\ \A i \in 1..N :
                         /\ Ways(NewSampler, k, vs, vs[i]) = Factorial(N - 1)
                         /\ Ways(NewSampler, k, vs, vs[i]) * N = Factorial(N)
    /\ got.kind = "got" =>
         /\ got.key = UnseenKey => got.value = None
         /\ got.value # None => \E i \in 1..Len(Observed(got.key)) :
                                    got.value = Observed(got.key)[i]

\* one key holds its second value of four, the other key its first of one,
\* and get has just returned None for the key that was never considered
C4_Witness ==
    /\ Len(Observed(<<"k", "1">>)) = 4
    /\ get(cache_user_messages, <<"k", "1">>) = SampleValue(2)
    /\ Len(Observed(<<"k", "2">>)) = 1
    /\ get(cache_user_messages, <<"k", "2">>) = SampleValue(1)
    /\ got = [kind |-> "got", key |-> UnseenKey, value |-> None]

\* the first token of l is a timestamp datetime.time accepts
ValidTimestamp(l) == time(split_sep(split(l)[1], ":")).kind = "time"

\* l has a second token that starts with none of "*", "<", "-", or too few
\* tokens for the branch that its second token selects
UnknownOrTruncated(l) ==
    /\ Len(split(l)) >= 2
    /\ LET d == split(l)[2][1]
       IN  \/ d \notin {"*", "<", "-"}
           \/ d \in {"*", "<"} /\ Len(split(l)) < 3
           \/ d = "-" /\ Len(split(l)) < 5

\* C5: a line of 7 characters or more that starts with a digit and has a
\* valid timestamp, but an unknown discriminator or too few tokens, ends the
\* run: parse raises, nothing is counted, and from then on no line is
\* processed and save_page never runs, so there is no report.
C5_FatalFormatError ==
    [][/\ (Fed /\ Len(line') >= MinLineLen /\ IsDigit(line'[1])
               /\ ValidTimestamp(line') /\ UnknownOrTruncated(line')) =>
            /\ parse(line').kind = "raise"
            /\ pc' = "aborted"
            /\ exc' \in {"RuntimeError", "IndexError"}
            /\ report' = None
            /\ n_msgs' = n_msgs
            /\ UNCHANGED main_vars
       /\ pc = "aborted" => (report = None /\ UNCHANGED vars)
      ]_vars

\* an unknown discriminator ended the run on its second line, after a
\* message had been counted
C5_Witness ==
    /\ pc = "aborted" /\ exc = "RuntimeError"
    /\ n_lines = 2 /\ n_msgs = 1
    /\ ValidTimestamp(line) /\ UnknownOrTruncated(line)
    /\ report = None

HistogramSums(graph, messages, n) ==
    /\ DOMAIN graph = 0..(Hours - 1)
    /\ SumGraph(graph, Hours - 1) = n
    /\ CounterTotal(messages) = n

Position(u) == CHOOSE i \in 1..Len(user_messages) : user_messages[i].k = u

\* u is ranked before v: more messages, or as many and inserted earlier
RankedBefore(u, v) ==
    \/ CounterGet(user_messages, u) > CounterGet(user_messages, v)
    \/ /\ CounterGet(user_messages, u) = CounterGet(user_messages, v)
       /\ Position(u) < Position(v)

Rank(u) == 1 + Cardinality({v \in CounterKeys(user_messages) : RankedBefore(v, u)})

Max(a, b) == IF a > b THEN a ELSE b

\* C8: save_page ranks the n authors by message count, descending, ties in
\* the order of first insertion; most_active is ranks 1..min(25, n) and
\* runner_ups is the next min(10, max(0, n - 25)) ranks; no author is in
\* both and no runner-up has more messages than a most-active author.
C8_Ranking ==
    pc = "saved" =>
        LET n == Len(user_messages)
            active == report.most_active
            runners == report.runner_ups
        IN  /\ Len(active) = Min(25, n)
            /\ \A i \in 1..Len(active) :
                   /\ Rank(active[i].username) = i
                   /\ active[i].message_count = CounterGet(user_messages, active[i].username)
            /\ Len(runners) = Min(10, Max(0, n - 25))
            /\ \A j \in 1..Len(runners) :
                   /\ Rank(runners[j].k) = 25 + j
                   /\ runners[j].n = CounterGet(user_messages, runners[j].k)
            /\ \A i \in 1..Len(active), j \in 1..Len(runners) :
                   /\ active[i].username # runners[j].k
                   /\ runners[j].n <= active[i].message_count

\* 36 authors or more: 25 most active, 10 runner-ups, a tie inside the top 25
\* and a runner-up that was inserted before a most-active author
C8_Witness ==
    /\ pc = "saved"
    /\ Len(user_messages) >= 36
    /\ Len(report.most_active) = 25
    /\ Len(report.runner_ups) = 10
    /\ report.most_active[1].message_count = report.most_active[2].message_count
    /\ report.most_active[1].message_count > report.most_active[25].message_count
    /\ \E i \in 1..25, j \in 1..10 :
           Position(report.runner_ups[j].k) < Position(report.most_active[i].username)

\* the first token of l has a component that is no number, or an hour
\* outside 0..23, or a minute or a second outside 0..59
InvalidTimestamp(l) ==
    LET parts == split_sep(split(l)[1], ":")
        n == Len(parts)
    IN  \/ \E i \in 1..n : ~int(parts[i]).ok
        \/ int(parts[1]).val < 0 \/ int(parts[1]).val > 23
        \/ n >= 2 /\ (int(parts[2]).val < 0 \/ int(parts[2]).val > 59)
        \/ n >= 3 /\ (int(parts[3]).val < 0 \/ int(parts[3]).val > 59)

FedInvalidTimestamp ==
    /\ Fed
    /\ Len(line') >= MinLineLen
    /\ IsDigit(line'[1])
    /\ InvalidTimestamp(line')

\* C9, as claimed: a line of 7 characters or more that starts with a digit
\* but has no valid timestamp is a reject: no event, nothing counted, and
\* the run goes on with the next line.
C9_InvalidTimestampSkipped ==
    [][FedInvalidTimestamp =>
            /\ pc' = "reading"
            /\ exc' = "none"
            /\ n_msgs' = n_msgs
            /\ UNCHANGED main_vars
      ]_vars

\* C9, amended: such a line is fatal: parse raises, no event is made and
\* nothing is counted, the exception leaves one_line and the run is over,
\* with no report.
C9_InvalidTimestampFatal ==
    [][FedInvalidTimestamp =>
            /\ parse(line').kind = "raise"
            /\ pc' = "aborted"
            /\ exc' \in {"ValueError", "TypeError"}
            /\ report' = None
            /\ n_msgs' = n_msgs
            /\ UNCHANGED main_vars
      ]_vars

\* an hour of 24 ended the run on its second line, after a counted message
C9_Witness ==
    /\ pc = "aborted" /\ exc = "ValueError"
    /\ n_lines = 2 /\ n_msgs = 1
    /\ Len(line) >= MinLineLen
    /\ IsDigit(line[1])
    /\ InvalidTimestamp(line)
    /\ split(line)[1] = TimeStr(24, 0, 1)

PreviousMonth(t) ==
    IF t.month > 1
    THEN [year |-> t.year, month |-> t.month - 1]
    ELSE [year |-> t.year - 1, month |-> 12]

\* C10: "previous" as month or year resolves to the calendar month before
\* the current one (December of the year before, in January); "current"
\* resolves to the current month and to the current year.
C10_PreviousMonth ==
    mask.kind = "mask" =>
        IF arg_month = K_previous \/ arg_year = K_previous
        THEN /\ mask.year = strftime_Y(PreviousMonth(now).year)
             /\ mask.month = strftime_m(PreviousMonth(now).month)
        ELSE /\ arg_year = K_current => mask.year = strftime_Y(now.year)
             /\ arg_month = K_current => mask.month = strftime_m(now.month)

====
